---- MODULE Spec2Model ----
(***************************************************************************)
(* Comment / reply counter propagation of the blogging backend             *)
(* (src/src/controllers/comment.controller.ts).  Each request handler is   *)
(* an async function; every `await` on a storage call is one atomic step   *)
(* of the handler, so a handler is a short sequence of actions.            *)
(***************************************************************************)
EXTENDS Integers, Naturals, Sequences, FiniteSets, TLC

\* ---- bounds of the model ------------------------------------------------
MaxComments == 4        \* comment ids ever assigned (ObjectIds are never reused)
MaxTreeComments == 3    \* comments created where requests are followed one by one
                        \* or overlapping without restriction
NumUsers == 2           \* authenticated users
NumProcs == 2           \* request slots that may be in flight together
MaxEditComments == 2    \* comments created where edits are followed
MaxPosts == 3           \* updates arrive while every author's totalPosts is below it
MaxLikes == 3           \* likes arrive while every blog's totalLikes is within -MaxLikes..MaxLikes
NumSockets == 13        \* sockets that connect to the whiteboard server
NumDrawers == 2         \* sockets that also leave rooms, draw and undo
MaxRooms == 2           \* whiteboard rooms ever created
MaxMoves == 2           \* moves a socket has drawn and not undone
MaxDrawed == 1          \* moves a room keeps of the sockets that left it
RoomCapacity == 12      \* `room.users.size < 12`

CommentIds == 1..MaxComments
TargetIds == 1..MaxTreeComments   \* the comment ids that requests name where at most
                                  \* MaxTreeComments comments are created
Users == 1..NumUsers
Procs == 1..NumProcs
BlogIds == {1, 2}       \* blog 1 is stored, blog 2 has no document until createBlog saves it
NoParent == 0           \* `parent` undefined
BlogOwner == 1          \* author of the stored blog

Sockets == 1..NumSockets
Drawers == 1..NumDrawers
RoomIds == 1..MaxRooms

\* the blogging backend: the three collections, the ids given out, the requests
\* the whiteboard server (src/src/app.ts): the rooms map, socket.rooms of
\* every socket without its own id, and the event handled last
VARIABLES comments, blogs, users, nextId, req, rooms, socketRooms, lastEvent
vars == <<comments, blogs, users, nextId, req, rooms, socketRooms, lastEvent>>
site == <<comments, blogs, users, nextId, req>>
board == <<rooms, socketRooms, lastEvent>>

\* a room: usersMoves (socket id -> moves), drawed, users (its keys); a room
\* id that `rooms` does not have is NoRoom
\* (movers are the keys of usersMoves; a socket that is no key has <<>>)
NoRoom ==
    [exists |-> FALSE, users |-> {}, movers |-> {},
     usersMoves |-> [s \in Sockets |-> <<>>], drawed |-> <<>>]

\* no event handled yet
NoEvent == [ev |-> "none", socket |-> 0, roomId |-> 0, failed |-> FALSE, error |-> FALSE]

\* ---- request bodies ----------------------------------------------------

\* a content string is a sequence of characters; Joi's string().trim()
\* strips the white space at both ends before the handler uses the value
RECURSIVE TrimLeft(_)
TrimLeft(str) ==
    IF str # <<>> /\ Head(str) = " " THEN TrimLeft(Tail(str)) ELSE str

RECURSIVE TrimRight(_)
TrimRight(str) ==
    IF str # <<>> /\ str[Len(str)] = " " THEN TrimRight(SubSeq(str, 1, Len(str) - 1)) ELSE str

Trim(str) == TrimRight(TrimLeft(str))

\* Joi.string().trim().required(): an empty string is rejected (400)
ValidContent(str) == Trim(str) # <<>>

\* the content strings requests send
PlainContents == {<<"a">>}
Contents == {<<"a">>, <<"b">>, <<" ", "b", " ">>, <<" ">>}

\* ---- documents ----------------------------------------------------------

\* a lookup that found nothing (null)
Absent ==
    [stored |-> FALSE, blogId |-> 0, blogAuthor |-> 0, commentedBy |-> 0,
     isReply |-> FALSE, parent |-> NoParent, totalReplies |-> 0,
     content |-> <<>>, isEdited |-> FALSE]

\* (variant: isReply is left at the schema default)
NewCommentDefaultFlag(blogId, blogAuthor, content, commentedBy, isReply, parent) ==
    [stored |-> TRUE, blogId |-> blogId, blogAuthor |-> blogAuthor,
     commentedBy |-> commentedBy, isReply |-> FALSE, parent |-> parent,
     totalReplies |-> 0, content |-> content, isEdited |-> FALSE]

\* new Comment({...}) with the schema defaults
NewComment(blogId, blogAuthor, content, commentedBy, isReply, parent) ==
    [stored |-> TRUE, blogId |-> blogId, blogAuthor |-> blogAuthor,
     commentedBy |-> commentedBy, isReply |-> isReply, parent |-> parent,
     totalReplies |-> 0, content |-> content, isEdited |-> FALSE]

\* a blog document: author, isDraft, the activity counters and the likes map
\* (its keys: the handlers only ever set the value true); taken tells that
\* the blogId has been generated, generated ids do not repeat
NoBlog ==
    [stored |-> FALSE, taken |-> FALSE, author |-> 0, isDraft |-> FALSE,
     totalComments |-> 0, totalParentComments |-> 0, totalLikes |-> 0, likes |-> {}]

\* new Blog({...}) with the schema defaults
NewBlog(author) ==
    [NoBlog EXCEPT !.stored = TRUE, !.taken = TRUE, !.author = author]

\* a user document: accountInfo.totalPosts and the blogs array
NewUser == [totalPosts |-> 0, blogs |-> <<>>]

\* Comment.findById(id)
FindById(store, id) ==
    IF id \in DOMAIN store /\ store[id].stored THEN store[id] ELSE Absent

\* Blog.findById(id)
FindBlogById(store, id) ==
    IF id \in DOMAIN store /\ store[id].stored THEN store[id] ELSE NoBlog

\* Comment.findByIdAndUpdate(id, {$inc: {totalReplies: delta}}): the store after it
IncTotalReplies(store, id, delta) ==
    IF id \in DOMAIN store /\ store[id].stored
    THEN [store EXCEPT ![id].totalReplies = @ + delta]
    ELSE store

\* Blog.findByIdAndUpdate(id, {$inc: {...}}): the store after it
IncBlog(store, id, dComments, dParents) ==
    IF id \in DOMAIN store /\ store[id].stored
    THEN [store EXCEPT ![id].totalComments = @ + dComments,
                       ![id].totalParentComments = @ + dParents]
    ELSE store

\* (variant: the deletion also removes the direct replies)
RemoveCommentAndReplies(store, id) ==
    [c \in DOMAIN store |->
        IF c = id \/ (store[c].stored /\ store[c].parent = id) THEN Absent ELSE store[c]]

\* Comment.findOneAndDelete({_id: id}): the store after it
RemoveComment(store, id) ==
    IF id \in DOMAIN store THEN [store EXCEPT ![id] = Absent] ELSE store

\* (variant: only the direct parent is updated, no recursion)
ContinueWalkNever(doc) == FALSE

\* (variant: the walk goes on whenever the update found a document)
ContinueWalkAlways(doc) == doc.stored

\* `if (parentComment?.parent)`: the walk goes on to the parent
ContinueWalk(doc) == doc.stored /\ doc.parent # NoParent

\* `comment?.isReply && comment.parent`
IsReplyWithParent(doc) == doc.isReply /\ doc.parent # NoParent

\* (variant: the deleted comment's own replies are not counted)
DecrementByOne(doc) == -1

\* `-(1 + comment.totalReplies)`
DecrementBy(doc) == -(1 + doc.totalReplies)

\* the user may delete: comment creator or the comment's recorded blog author
MayDelete(userId, doc) == userId = doc.commentedBy \/ userId = doc.blogAuthor

\* ---- requests -----------------------------------------------------------

\* a request slot: the handler's parameters and locals, its position (pc),
\* its response status, the ids its ancestor walk has called
\* findByIdAndUpdate on (walk), the stores as they were when it began, and
\* whether every other slot was idle when it began (first)
Idle ==
    [op |-> "none", pc |-> "idle", userId |-> 0, id |-> 0, blogId |-> 0,
     blogAuthor |-> 0, comment |-> Absent, deleted |-> Absent, newId |-> 0,
     isReply |-> FALSE, decrementBy |-> 0, cur |-> 0, walk |-> <<>>,
     status |-> 0, preComments |-> <<>>, preBlogs |-> <<>>, content |-> <<>>,
     first |-> FALSE, blog |-> NoBlog, isLiked |-> FALSE, preUsers |-> <<>>,
     body |-> "absent"]

\* requests that will still insert a comment
Creating(p) == req[p].pc \in {"cc_save", "cr_save"}
Within(n) == nextId + Cardinality({p \in Procs : Creating(p)}) < n
Budget == Within(MaxComments)

Init ==
    /\ comments = [c \in CommentIds |-> Absent]
    /\ blogs = [b \in BlogIds |-> IF b = 1 THEN NewBlog(BlogOwner) ELSE NoBlog]
    /\ users = [u \in Users |->
                    IF u = BlogOwner THEN [totalPosts |-> 1, blogs |-> <<1>>] ELSE NewUser]
    /\ nextId = 0
    /\ req = [p \in Procs |-> Idle]
    /\ rooms = [r \in RoomIds |-> NoRoom]
    /\ socketRooms = [s \in Sockets |-> <<>>]
    /\ lastEvent = NoEvent

\* a handler's first step: the request arrives and its first lookup runs
Begin(op, userId) ==
    [Idle EXCEPT !.op = op, !.userId = userId,
                 !.preComments = comments, !.preBlogs = blogs, !.preUsers = users,
                 !.first = \A s \in Procs : req[s].pc = "idle"]

Finish(r, status) == [r EXCEPT !.pc = "done", !.status = status]

\* ---- createComment ------------------------------------------------------

\* validate body (400), Blog.findById(blogId), 404 when missing
CreateCommentFindBlog(p, userId, blogId, blogAuthor, content) ==
    /\ req[p].pc = "idle"
    /\ Budget
    /\ LET r == [Begin("createComment", userId) EXCEPT
                    !.blogId = blogId, !.blogAuthor = blogAuthor,
                    !.content = Trim(content)]
       IN  req' = [req EXCEPT ![p] =
                IF ~ValidContent(content) THEN Finish(r, 400)
                ELSE IF FindBlogById(blogs, blogId).stored
                THEN [r EXCEPT !.pc = "cc_save"]
                ELSE Finish(r, 404)]
    /\ UNCHANGED <<comments, blogs, users, nextId, board>>

\* comment.save()
CreateCommentSave(p) ==
    /\ req[p].pc = "cc_save"
    /\ nextId' = nextId + 1
    /\ comments' = [comments EXCEPT ![nextId + 1] =
            NewComment(req[p].blogId, req[p].blogAuthor, req[p].content, req[p].userId,
                       FALSE, NoParent)]
    /\ req' = [req EXCEPT ![p].newId = nextId + 1, ![p].pc = "cc_blog"]
    /\ UNCHANGED <<blogs, users, board>>

\* (variant: totalParentComments is left out of the $inc)
CreateCommentUpdateBlogTotalOnly(p) ==
    /\ req[p].pc = "cc_blog"
    /\ blogs' = IncBlog(blogs, req[p].blogId, 1, 0)
    /\ req' = [req EXCEPT ![p] = Finish(@, 201)]
    /\ UNCHANGED <<comments, users, nextId, board>>

\* Blog.findByIdAndUpdate(blogId, $inc totalComments 1, totalParentComments 1)
CreateCommentUpdateBlog(p) ==
    /\ req[p].pc = "cc_blog"
    /\ blogs' = IncBlog(blogs, req[p].blogId, 1, 1)
    /\ req' = [req EXCEPT ![p] = Finish(@, 201)]
    /\ UNCHANGED <<comments, users, nextId, board>>

\* ---- createReply --------------------------------------------------------

\* (variant: the reply is saved before the parent is looked up)
CreateReplySaveThenFind(p, userId, commentId, content) ==
    /\ req[p].pc = "idle"
    /\ Budget
    /\ LET r == [Begin("createReply", userId) EXCEPT
                    !.id = commentId, !.content = Trim(content)]
           doc == FindById(comments, commentId)
       IN  /\ req' = [req EXCEPT ![p] =
                IF ~ValidContent(content) THEN Finish(r, 400)
                ELSE IF doc.stored
                THEN [r EXCEPT !.pc = "cr_save", !.comment = doc,
                               !.blogId = doc.blogId, !.blogAuthor = doc.blogAuthor]
                ELSE Finish(r, 404)]
           /\ comments' = IF ValidContent(content) /\ ~doc.stored
                          THEN [comments EXCEPT ![nextId + 1] =
                                  NewComment(0, 0, Trim(content), userId, TRUE, commentId)]
                          ELSE comments
           /\ nextId' = IF ValidContent(content) /\ ~doc.stored THEN nextId + 1 ELSE nextId
    /\ UNCHANGED <<blogs, users, board>>

\* validate body (400), Comment.findById(commentId).select("blogId blogAuthor"),
\* 404 when missing
CreateReplyFindParent(p, userId, commentId, content) ==
    /\ req[p].pc = "idle"
    /\ Budget
    /\ LET r == [Begin("createReply", userId) EXCEPT
                    !.id = commentId, !.content = Trim(content)]
           doc == FindById(comments, commentId)
       IN  req' = [req EXCEPT ![p] =
                IF ~ValidContent(content) THEN Finish(r, 400)
                ELSE IF doc.stored
                THEN [r EXCEPT !.pc = "cr_save", !.comment = doc,
                               !.blogId = doc.blogId, !.blogAuthor = doc.blogAuthor]
                ELSE Finish(r, 404)]
    /\ UNCHANGED <<comments, blogs, users, nextId, board>>

\* (variant: the blog update is issued together with the save, before the walk)
CreateReplySaveWithBlog(p) ==
    /\ req[p].pc = "cr_save"
    /\ nextId' = nextId + 1
    /\ comments' = [comments EXCEPT ![nextId + 1] =
            NewComment(req[p].blogId, req[p].blogAuthor, req[p].content, req[p].userId,
                       TRUE, req[p].id)]
    /\ blogs' = IncBlog(blogs, req[p].blogId, 1, 0)
    /\ req' = [req EXCEPT ![p].newId = nextId + 1, ![p].pc = "cr_inc", ![p].cur = req[p].id]
    /\ UNCHANGED <<users, board>>

\* reply.save()
CreateReplySave(p) ==
    /\ req[p].pc = "cr_save"
    /\ nextId' = nextId + 1
    /\ comments' = [comments EXCEPT ![nextId + 1] =
            NewComment(req[p].blogId, req[p].blogAuthor, req[p].content, req[p].userId,
                       TRUE, req[p].id)]
    /\ req' = [req EXCEPT ![p].newId = nextId + 1, ![p].pc = "cr_inc", ![p].cur = req[p].id]
    /\ UNCHANGED <<blogs, users, board>>

\* (variant: the recursive call is made with the same id again)
IncrementalTotalRepliesSameId(p) ==
    /\ req[p].pc = "cr_inc"
    /\ LET parentComment == FindById(comments, req[p].cur)
       IN  /\ comments' = IncTotalReplies(comments, req[p].cur, 1)
           /\ req' = [req EXCEPT ![p] =
                IF ContinueWalk(parentComment)
                THEN [@ EXCEPT !.walk = Append(@, req[p].cur)]
                ELSE [@ EXCEPT !.pc = "cr_blog", !.walk = Append(@, req[p].cur)]]
    /\ UNCHANGED <<blogs, users, nextId, board>>

\* (variant: a record missing on the way up is an error, the request ends
\* with 404 before the blog update)
IncrementalTotalRepliesStrict(p) ==
    /\ req[p].pc = "cr_inc"
    /\ LET parentComment == FindById(comments, req[p].cur)
       IN  /\ comments' = IncTotalReplies(comments, req[p].cur, 1)
           /\ req' = [req EXCEPT ![p] =
                IF ~parentComment.stored
                THEN Finish([@ EXCEPT !.walk = Append(@, req[p].cur)], 404)
                ELSE IF ContinueWalk(parentComment)
                THEN [@ EXCEPT !.cur = parentComment.parent,
                               !.walk = Append(@, req[p].cur)]
                ELSE [@ EXCEPT !.pc = "cr_blog", !.walk = Append(@, req[p].cur)]]
    /\ UNCHANGED <<blogs, users, nextId, board>>

\* (variant: read-modify-write, the new value is computed from the document
\* as the request first saw it instead of an atomic $inc)
IncrementalTotalRepliesStale(p) ==
    /\ req[p].pc = "cr_inc"
    /\ LET parentComment == FindById(comments, req[p].cur)
           seen == FindById(req[p].preComments, req[p].cur)
       IN  /\ comments' = IF parentComment.stored
                          THEN [comments EXCEPT ![req[p].cur].totalReplies =
                                    seen.totalReplies + 1]
                          ELSE comments
           /\ req' = [req EXCEPT ![p] =
                IF ContinueWalk(parentComment)
                THEN [@ EXCEPT !.cur = parentComment.parent,
                               !.walk = Append(@, req[p].cur)]
                ELSE [@ EXCEPT !.pc = "cr_blog", !.walk = Append(@, req[p].cur)]]
    /\ UNCHANGED <<blogs, users, nextId, board>>

\* one call of _incrementalTotalReplies(cur): $inc totalReplies by 1, then go on
\* to the parent of the updated document when it has one
IncrementalTotalReplies(p) ==
    /\ req[p].pc = "cr_inc"
    /\ LET parentComment == FindById(comments, req[p].cur)
       IN  /\ comments' = IncTotalReplies(comments, req[p].cur, 1)
           /\ req' = [req EXCEPT ![p] =
                IF ContinueWalk(parentComment)
                THEN [@ EXCEPT !.cur = parentComment.parent,
                               !.walk = Append(@, req[p].cur)]
                ELSE [@ EXCEPT !.pc = "cr_blog", !.walk = Append(@, req[p].cur)]]
    /\ UNCHANGED <<blogs, users, nextId, board>>

\* (variant: the $inc of createComment, which also counts a top-level comment)
CreateReplyUpdateBlogAsComment(p) ==
    /\ req[p].pc = "cr_blog"
    /\ blogs' = IncBlog(blogs, req[p].blogId, 1, 1)
    /\ req' = [req EXCEPT ![p] = Finish(@, 201)]
    /\ UNCHANGED <<comments, users, nextId, board>>

\* Blog.findByIdAndUpdate(blogId, $inc totalComments 1)
CreateReplyUpdateBlog(p) ==
    /\ req[p].pc = "cr_blog"
    /\ blogs' = IncBlog(blogs, req[p].blogId, 1, 0)
    /\ req' = [req EXCEPT ![p] = Finish(@, 201)]
    /\ UNCHANGED <<comments, users, nextId, board>>

\* ---- deleteCommentById --------------------------------------------------

\* Comment.findById(id), 404 when missing, 403 when the user may not delete
DeleteFindComment(p, userId, id) ==
    /\ req[p].pc = "idle"
    /\ LET r == [Begin("deleteCommentById", userId) EXCEPT !.id = id]
           doc == FindById(comments, id)
       IN  req' = [req EXCEPT ![p] =
                IF ~doc.stored THEN Finish(r, 404)
                ELSE IF ~MayDelete(userId, doc) THEN Finish([r EXCEPT !.comment = doc], 403)
                ELSE [r EXCEPT !.pc = "dc_delete", !.comment = doc, !.blogId = doc.blogId]]
    /\ UNCHANGED <<comments, blogs, users, nextId, board>>

\* (variant: the result of findOneAndDelete is not looked at)
DeleteRemoveUnchecked(p) ==
    /\ req[p].pc = "dc_delete"
    /\ LET comment == req[p].comment
       IN  /\ comments' = RemoveComment(comments, req[p].id)
           /\ req' = [req EXCEPT ![p] =
                [@ EXCEPT !.deleted = comment,
                          !.isReply = IsReplyWithParent(comment),
                          !.decrementBy = DecrementBy(comment),
                          !.cur = comment.parent,
                          !.pc = IF IsReplyWithParent(comment)
                                 THEN "dc_dec" ELSE "dc_blog"]]
    /\ UNCHANGED <<blogs, users, nextId, board>>

\* Comment.findOneAndDelete({_id: id}), 500 when nothing was deleted; then
\* isReply and decrementBy are computed from the document read by findById
DeleteRemove(p) ==
    /\ req[p].pc = "dc_delete"
    /\ LET deletedComment == FindById(comments, req[p].id)
           comment == req[p].comment
       IN  /\ comments' = RemoveComment(comments, req[p].id)
           /\ req' = [req EXCEPT ![p] =
                IF ~deletedComment.stored THEN Finish(@, 500)
                ELSE [@ EXCEPT !.deleted = deletedComment,
                               !.isReply = IsReplyWithParent(comment),
                               !.decrementBy = DecrementBy(comment),
                               !.cur = comment.parent,
                               !.pc = IF IsReplyWithParent(comment)
                                      THEN "dc_dec" ELSE "dc_blog"]]
    /\ UNCHANGED <<blogs, users, nextId, board>>

\* (variant: read-modify-write, the new value is computed from the document
\* as the request first saw it instead of an atomic $inc)
DecrementTotalRepliesStale(p) ==
    /\ req[p].pc = "dc_dec"
    /\ LET parentComment == FindById(comments, req[p].cur)
           seen == FindById(req[p].preComments, req[p].cur)
       IN  /\ comments' = IF parentComment.stored
                          THEN [comments EXCEPT ![req[p].cur].totalReplies =
                                    seen.totalReplies + req[p].decrementBy]
                          ELSE comments
           /\ req' = [req EXCEPT ![p] =
                IF ContinueWalk(parentComment)
                THEN [@ EXCEPT !.cur = parentComment.parent,
                               !.walk = Append(@, req[p].cur)]
                ELSE [@ EXCEPT !.pc = "dc_blog", !.walk = Append(@, req[p].cur)]]
    /\ UNCHANGED <<blogs, users, nextId, board>>

\* one call of _decrementTotalReplies(cur, decrementBy)
DecrementTotalReplies(p) ==
    /\ req[p].pc = "dc_dec"
    /\ LET parentComment == FindById(comments, req[p].cur)
       IN  /\ comments' = IncTotalReplies(comments, req[p].cur, req[p].decrementBy)
           /\ req' = [req EXCEPT ![p] =
                IF ContinueWalk(parentComment)
                THEN [@ EXCEPT !.cur = parentComment.parent,
                               !.walk = Append(@, req[p].cur)]
                ELSE [@ EXCEPT !.pc = "dc_blog", !.walk = Append(@, req[p].cur)]]
    /\ UNCHANGED <<blogs, users, nextId, board>>

\* (variant: the two arms of `isReply ? 0 : -1` swapped)
DeleteUpdateBlogSwapped(p) ==
    /\ req[p].pc = "dc_blog"
    /\ blogs' = IncBlog(blogs, req[p].blogId, req[p].decrementBy,
                        IF req[p].isReply THEN -1 ELSE 0)
    /\ req' = [req EXCEPT ![p] = Finish(@, 200)]
    /\ UNCHANGED <<comments, users, nextId, board>>

\* Blog.findByIdAndUpdate(blogId, $inc totalComments decrementBy,
\* totalParentComments isReply ? 0 : -1)
DeleteUpdateBlog(p) ==
    /\ req[p].pc = "dc_blog"
    /\ blogs' = IncBlog(blogs, req[p].blogId, req[p].decrementBy,
                        IF req[p].isReply THEN 0 ELSE -1)
    /\ req' = [req EXCEPT ![p] = Finish(@, 200)]
    /\ UNCHANGED <<comments, users, nextId, board>>

\* ---- updateCommentById --------------------------------------------------

\* (variant: the permission check of deleteCommentById)
MayUpdateAsDelete(userId, doc) == MayDelete(userId, doc)

\* the user may update: comment creator only
MayUpdate(userId, doc) == userId = doc.commentedBy

\* Comment.findById(id), 404 when missing, 403 when the user is not the
\* comment's creator, then the body is validated (400)
UpdateFindComment(p, userId, id, content) ==
    /\ req[p].pc = "idle"
    /\ LET r == [Begin("updateCommentById", userId) EXCEPT !.id = id]
           doc == FindById(comments, id)
       IN  req' = [req EXCEPT ![p] =
                IF ~doc.stored THEN Finish(r, 404)
                ELSE IF ~MayUpdate(userId, doc) THEN Finish([r EXCEPT !.comment = doc], 403)
                ELSE IF ~ValidContent(content) THEN Finish([r EXCEPT !.comment = doc], 400)
                ELSE [r EXCEPT !.pc = "uc_update", !.comment = doc, !.blogId = doc.blogId,
                               !.content = Trim(content)]]
    /\ UNCHANGED <<comments, blogs, users, nextId, board>>

\* (variant: the document is replaced by one holding only the new fields)
SetContentReplacing(store, id, content) ==
    IF id \in DOMAIN store /\ store[id].stored
    THEN [store EXCEPT ![id] =
            [NewComment(@.blogId, @.blogAuthor, content, @.commentedBy, FALSE, NoParent)
                EXCEPT !.isEdited = TRUE]]
    ELSE store

\* Comment.findByIdAndUpdate(id, {$set: {content, isEdited: true}}): the store after it
SetContent(store, id, content) ==
    IF id \in DOMAIN store /\ store[id].stored
    THEN [store EXCEPT ![id].content = content, ![id].isEdited = TRUE]
    ELSE store

\* Comment.findByIdAndUpdate(id, $set content, isEdited), 500 when nothing was updated
UpdateSetContent(p) ==
    /\ req[p].pc = "uc_update"
    /\ LET updatedComment == FindById(comments, req[p].id)
       IN  /\ comments' = SetContent(comments, req[p].id, req[p].content)
           /\ req' = [req EXCEPT ![p] =
                IF updatedComment.stored THEN Finish(@, 200) ELSE Finish(@, 500)]
    /\ UNCHANGED <<blogs, users, nextId, board>>

\* no request is between its first and its last storage step
NoneInFlight == \A p \in Procs : req[p].pc \in {"idle", "done"}

\* ---- responses ----------------------------------------------------------

\* res.status(...).json(data): the request is over
Respond(p) ==
    /\ req[p].pc = "done"
    /\ req' = [req EXCEPT ![p] = Idle]
    /\ UNCHANGED <<comments, blogs, users, nextId, board>>

\* the steps of the three handlers after the arrival of the request
Writes(p) ==
    \/ CreateCommentSave(p)
    \/ CreateCommentUpdateBlog(p)
    \/ CreateReplySave(p)
    \/ IncrementalTotalReplies(p)
    \/ CreateReplyUpdateBlog(p)
    \/ DeleteRemove(p)
    \/ DecrementTotalReplies(p)
    \/ DeleteUpdateBlog(p)

\* every storage step of the three handlers but the arrival of a create request
Work(p, US) ==
    \/ \E u \in US, c \in TargetIds : DeleteFindComment(p, u, c)
    \/ Writes(p)

Steps(p, US) ==
    \/ Work(p, US)
    \/ Respond(p)

TreeCreateComment(p, userId, blogId, blogAuthor, content) ==
    /\ Within(MaxTreeComments)
    /\ CreateCommentFindBlog(p, userId, blogId, blogAuthor, content)

TreeCreateReply(p, userId, commentId, content) ==
    /\ Within(MaxTreeComments)
    /\ CreateReplyFindParent(p, userId, commentId, content)

Handler(p, US, CS) ==
    \/ \E u \in US, b \in BlogIds, ba \in US, t \in CS : TreeCreateComment(p, u, b, ba, t)
    \/ \E u \in US, c \in TargetIds, t \in CS : TreeCreateReply(p, u, c, t)
    \/ Steps(p, US)

\* requests run one at a time
Next == Handler(1, Users, PlainContents)

Spec == Init /\ [][Next]_vars

\* requests overlap: every slot runs its handler, steps interleave at the awaits
\* (all sent by the blog's author, who may delete every comment here)
NextConc == \E p \in Procs : Handler(p, {BlogOwner}, PlainContents)

SpecConc == Init /\ [][NextConc]_vars

\* groups of overlapping requests: createReply and deleteCommentById
\* requests arrive while others are in flight, a createComment runs while
\* nothing else does, and the slots are freed together once every request of
\* the group has its response, so the slots that are not idle are the
\* requests that overlapped since the stores were last quiet (a request
\* takes the lowest free slot; all are sent by the blog's author)
Group == {p \in Procs : req[p].pc # "idle"}

LowestFree(p) == \A s \in Procs : s < p => s \in Group

GroupCreateComment(p, blogId, content) ==
    /\ Group = {}
    /\ LowestFree(p)
    /\ CreateCommentFindBlog(p, BlogOwner, blogId, BlogOwner, content)

GroupCreateReply(p, commentId, content) ==
    /\ LowestFree(p)
    /\ \A s \in Group : req[s].op # "createComment"
    /\ CreateReplyFindParent(p, BlogOwner, commentId, content)

GroupDelete(p, id) ==
    /\ LowestFree(p)
    /\ \A s \in Group : req[s].op # "createComment"
    /\ DeleteFindComment(p, BlogOwner, id)

GroupRespond ==
    /\ NoneInFlight
    /\ \E p \in Procs : req[p].pc = "done"
    /\ req' = [p \in Procs |-> Idle]
    /\ UNCHANGED <<comments, blogs, users, nextId, board>>

GroupHandler(p) ==
    \/ \E b \in BlogIds, t \in PlainContents : GroupCreateComment(p, b, t)
    \/ \E c \in CommentIds, t \in PlainContents : GroupCreateReply(p, c, t)
    \/ \E c \in CommentIds : GroupDelete(p, c)
    \/ Writes(p)

NextGroup == GroupRespond \/ \E p \in Procs : GroupHandler(p)

SpecGroup == Init /\ [][NextGroup]_vars

\* comments and their edits: the four comment handlers, one request at a
\* time, any user and any content, at most MaxEditComments comments; the
\* body of createComment names the blog's author as blogAuthor
EditCreateComment(p, userId, blogId, blogAuthor, content) ==
    /\ nextId < MaxEditComments
    /\ CreateCommentFindBlog(p, userId, blogId, blogAuthor, content)

EditCreateReply(p, userId, commentId, content) ==
    /\ nextId < MaxEditComments
    /\ CreateReplyFindParent(p, userId, commentId, content)

EditHandler(p) ==
    \/ \E u \in Users, b \in BlogIds, t \in Contents :
            EditCreateComment(p, u, b, BlogOwner, t)
    \/ \E u \in Users, c \in TargetIds, t \in Contents : EditCreateReply(p, u, c, t)
    \/ Steps(p, Users)
    \/ \E u \in Users, c \in TargetIds, t \in Contents : UpdateFindComment(p, u, c, t)
    \/ UpdateSetContent(p)

NextEdit == EditHandler(1)

SpecEdit == Init /\ [][NextEdit]_vars
\* ---- the comment tree ---------------------------------------------------

\* ids of the documents in the collection
Stored(store) == {c \in DOMAIN store : store[c].stored}

\* the stored comments reached from c by following parent references upward
RECURSIVE Ancestors(_, _)
Ancestors(store, c) ==
    LET par == store[c].parent
    IN  IF par = NoParent \/ par \notin Stored(store) THEN {}
        ELSE {par} \cup Ancestors(store, par)

\* the stored comments whose parent references lead to c
Descendants(store, c) == {d \in Stored(store) : c \in Ancestors(store, d)}

\* every parent reference from c up to a top-level comment points to a stored comment
RECURSIVE ChainComplete(_, _)
ChainComplete(store, c) ==
    /\ c \in Stored(store)
    /\ store[c].parent = NoParent \/ ChainComplete(store, store[c].parent)

\* request p has ended with this status
Ended(p, op, status) == req[p].pc = "done" /\ req[p].op = op /\ req[p].status = status

\* ---- claims -------------------------------------------------------------

\* C1: once every request has completed, each stored comment's totalReplies
\* is the number of stored comments that descend from it, directly or not.
C1_TotalRepliesCountsDescendants ==
    NoneInFlight =>
        \A c \in Stored(comments) :
            comments[c].totalReplies = Cardinality(Descendants(comments, c))

\* C1 witness: a comment counts a reply to one of its replies.
C1_Witness ==
    /\ NoneInFlight
    /\ \E c \in Stored(comments), d \in Stored(comments) :
        /\ comments[c].totalReplies >= 2
        /\ d \in Descendants(comments, c)
        /\ comments[d].parent # c

\* C2 (as claimed): once every request has completed, the blog's totalComments
\* is the number of stored comments of the blog and totalParentComments the
\* number of those without a parent.
C2_BlogCountersMatchStore ==
    NoneInFlight =>
        \A b \in BlogIds : blogs[b].stored =>
            /\ blogs[b].totalComments =
                 Cardinality({c \in Stored(comments) : comments[c].blogId = b})
            /\ blogs[b].totalParentComments =
                 Cardinality({c \in Stored(comments) :
                                comments[c].blogId = b /\ comments[c].parent = NoParent})

\* C3: a successful createReply to a comment whose ancestor chain is stored
\* adds 1 to totalReplies of the comment and of each of its ancestors, adds 1
\* to the blog's totalComments, and changes neither totalParentComments nor
\* the totalReplies of any other comment.
C3_ReplyIncrementsChain ==
    \A p \in Procs :
        LET r == req[p]
            pre == r.preComments
        IN  (Ended(p, "createReply", 201) /\ ChainComplete(pre, r.id)) =>
                /\ \A c \in Stored(pre) :
                    comments[c].totalReplies = pre[c].totalReplies +
                        (IF c \in {r.id} \cup Ancestors(pre, r.id) THEN 1 ELSE 0)
                /\ blogs[r.blogId].totalComments = r.preBlogs[r.blogId].totalComments + 1
                /\ blogs[r.blogId].totalParentComments =
                        r.preBlogs[r.blogId].totalParentComments

\* C3 witness: a reply to a reply has been recorded.
C3_Witness ==
    \E p \in Procs :
        /\ Ended(p, "createReply", 201)
        /\ ChainComplete(req[p].preComments, req[p].id)
        /\ Ancestors(req[p].preComments, req[p].id) # {}

\* C4: a successful createComment stores one new comment without parent and
\* with totalReplies 0, adds 1 to the blog's totalComments and
\* totalParentComments, and changes no existing comment's totalReplies.
C4_CommentCreation ==
    \A p \in Procs :
        LET r == req[p]
            pre == r.preComments
        IN  Ended(p, "createComment", 201) =>
                /\ r.newId \notin Stored(pre)
                /\ Stored(comments) = Stored(pre) \cup {r.newId}
                /\ comments[r.newId].parent = NoParent
                /\ ~comments[r.newId].isReply
                /\ comments[r.newId].totalReplies = 0
                /\ comments[r.newId].blogId = r.blogId
                /\ \A c \in Stored(pre) : comments[c].totalReplies = pre[c].totalReplies
                /\ blogs[r.blogId].totalComments = r.preBlogs[r.blogId].totalComments + 1
                /\ blogs[r.blogId].totalParentComments =
                        r.preBlogs[r.blogId].totalParentComments + 1

\* C4 witness: a comment was created on a blog that already had comments.
C4_Witness ==
    \E p \in Procs :
        /\ Ended(p, "createComment", 201)
        /\ Stored(req[p].preComments) # {}

\* C5: a successful deleteCommentById of a reply with totalReplies n whose
\* ancestor chain is stored subtracts 1 + n from totalReplies of every
\* ancestor and from the blog's totalComments; totalParentComments stays.
C5_DeleteReply ==
    \A p \in Procs :
        LET r == req[p]
            pre == r.preComments
            n == pre[r.id].totalReplies
        IN  (Ended(p, "deleteCommentById", 200) /\ pre[r.id].parent # NoParent
                /\ ChainComplete(pre, r.id)) =>
                /\ \A a \in Ancestors(pre, r.id) :
                    comments[a].totalReplies = pre[a].totalReplies - (1 + n)
                /\ blogs[r.blogId].totalComments =
                        r.preBlogs[r.blogId].totalComments - (1 + n)
                /\ blogs[r.blogId].totalParentComments =
                        r.preBlogs[r.blogId].totalParentComments

\* C5 witness: a reply that had a reply of its own was deleted.
C5_Witness ==
    \E p \in Procs :
        /\ Ended(p, "deleteCommentById", 200)
        /\ req[p].preComments[req[p].id].parent # NoParent
        /\ ChainComplete(req[p].preComments, req[p].id)
        /\ req[p].preComments[req[p].id].totalReplies >= 1

\* C6: a successful deleteCommentById of a top-level comment with
\* totalReplies n subtracts 1 + n from the blog's totalComments and 1 from
\* totalParentComments, and changes no remaining comment's totalReplies.
C6_DeleteTopLevel ==
    \A p \in Procs :
        LET r == req[p]
            pre == r.preComments
            n == pre[r.id].totalReplies
        IN  (Ended(p, "deleteCommentById", 200) /\ pre[r.id].parent = NoParent) =>
                /\ blogs[r.blogId].totalComments =
                        r.preBlogs[r.blogId].totalComments - (1 + n)
                /\ blogs[r.blogId].totalParentComments =
                        r.preBlogs[r.blogId].totalParentComments - 1
                /\ \A c \in Stored(comments) : comments[c].totalReplies = pre[c].totalReplies

\* C6 witness: a top-level comment with two recorded replies was deleted.
C6_Witness ==
    \E p \in Procs :
        /\ Ended(p, "deleteCommentById", 200)
        /\ req[p].preComments[req[p].id].parent = NoParent
        /\ req[p].preComments[req[p].id].totalReplies = 2

\* C7: a successful deleteCommentById removes the requested record and no
\* other: every descendant stays stored, all its fields unchanged, its
\* parent reference included.
C7_DeleteRemovesOneRecord ==
    \A p \in Procs :
        LET r == req[p]
            pre == r.preComments
        IN  Ended(p, "deleteCommentById", 200) =>
                /\ r.id \in Stored(pre)
                /\ Stored(comments) = Stored(pre) \ {r.id}
                /\ \A d \in Descendants(pre, r.id) : comments[d] = pre[d]

\* C7 witness: the deleted comment had a reply, which now points to a missing id.
C7_Witness ==
    \E p \in Procs :
        /\ Ended(p, "deleteCommentById", 200)
        /\ \E d \in Stored(comments) : comments[d].parent = req[p].id

\* C8: when the target of the propagation has no parent, a reply updates that
\* one comment and the blog and looks up no other comment, and the deletion
\* of a top-level comment looks up and updates no comment at all.
C8_ChainTermination ==
    \A p \in Procs :
        LET r == req[p]
            pre == r.preComments
        IN  /\ (Ended(p, "createReply", 201) /\ pre[r.id].stored
                    /\ pre[r.id].parent = NoParent) =>
                /\ r.walk = <<r.id>>
                /\ comments[r.id].totalReplies = pre[r.id].totalReplies + 1
                /\ \A c \in Stored(pre) \ {r.id} :
                        comments[c].totalReplies = pre[c].totalReplies
                /\ blogs[r.blogId].totalComments = r.preBlogs[r.blogId].totalComments + 1
            /\ (Ended(p, "deleteCommentById", 200) /\ pre[r.id].parent = NoParent) =>
                /\ r.walk = <<>>
                /\ \A c \in Stored(comments) : comments[c].totalReplies = pre[c].totalReplies
                /\ blogs[r.blogId].totalComments # r.preBlogs[r.blogId].totalComments

\* C8 witness: a reply to a top-level comment was recorded while another
\* comment was stored.
C8_Witness ==
    \E p \in Procs :
        /\ Ended(p, "createReply", 201)
        /\ req[p].preComments[req[p].id].parent = NoParent
        /\ Stored(req[p].preComments) \ {req[p].id} # {}

\* C9 (as claimed): the delta a deletion applies is -(1 + totalReplies) of the
\* record as it was when it was removed.
C9_DeltaFromRecordAtRemoval ==
    \A p \in Procs :
        (req[p].op = "deleteCommentById" /\ req[p].deleted.stored) =>
            req[p].decrementBy = -(1 + req[p].deleted.totalReplies)

\* C10 (as claimed): a deletion removes the comment only for the comment's
\* author or the author of the blog the comment belongs to.
C10_OnlyAuthorOrBlogAuthorDeletes ==
    \A p \in Procs :
        (req[p].op = "deleteCommentById" /\ req[p].deleted.stored) =>
            \/ req[p].userId = req[p].deleted.commentedBy
            \/ req[p].userId = blogs[req[p].deleted.blogId].author

\* C11: updateCommentById changes a comment only for the comment's author;
\* any other user, the blog's author included, gets 403 and the comment's
\* content and isEdited stay as they were.
C11_OnlyAuthorUpdates ==
    \A p \in Procs :
        LET r == req[p]
            pre == r.preComments
        IN  /\ (r.op = "updateCommentById" /\ r.pc = "uc_update") =>
                    r.userId = pre[r.id].commentedBy
            /\ Ended(p, "updateCommentById", 200) => r.userId = pre[r.id].commentedBy
            /\ (r.op = "updateCommentById" /\ r.pc = "done" /\ pre[r.id].stored
                    /\ r.userId # pre[r.id].commentedBy) =>
                /\ r.status = 403
                /\ comments[r.id].content = pre[r.id].content
                /\ comments[r.id].isEdited = pre[r.id].isEdited

\* C11 witness: the blog's author was refused the update of another user's comment.
C11_Witness ==
    \E p \in Procs :
        /\ Ended(p, "updateCommentById", 403)
        /\ req[p].userId = blogs[req[p].comment.blogId].author
        /\ req[p].userId # req[p].comment.commentedBy

\* C12 (state part): a successful updateCommentById sets content to the
\* validated new content and isEdited to true and changes nothing else of
\* the comment, no other comment and no blog counter.
C12_UpdateEffect ==
    \A p \in Procs :
        LET r == req[p]
            pre == r.preComments
        IN  Ended(p, "updateCommentById", 200) =>
                /\ comments[r.id] = [pre[r.id] EXCEPT !.content = r.content, !.isEdited = TRUE]
                /\ \A c \in CommentIds \ {r.id} : comments[c] = pre[c]
                /\ blogs = r.preBlogs

\* C12 (step part): isEdited, once true, stays true while the comment is stored.
C12_IsEditedStays ==
    \A c \in CommentIds :
        (comments[c].stored /\ comments[c].isEdited) =>
            (comments'[c].isEdited \/ ~comments'[c].stored)

\* C12: a successful updateCommentById overwrites content, sets isEdited and
\* leaves parent, isReply, blogId, totalReplies, every other comment and the
\* blog counters unchanged; isEdited stays true for the life of the comment.
C12_UpdateSetsContentOnly == []C12_UpdateEffect /\ [][C12_IsEditedStays]_vars

\* C12 witness: a reply with a reply of its own was edited a second time.
C12_Witness ==
    \E p \in Procs :
        /\ Ended(p, "updateCommentById", 200)
        /\ req[p].preComments[req[p].id].isEdited
        /\ req[p].preComments[req[p].id].content # req[p].content
        /\ req[p].preComments[req[p].id].totalReplies > 0

\* C13: a comment request that ends with 404 or 403 leaves the stored
\* comments, their totalReplies and the blog counters as they were.
C13_ErrorsChangeNothing ==
    \A p \in Procs :
        (req[p].pc = "done" /\ req[p].status \in {403, 404}) =>
            /\ comments = req[p].preComments
            /\ blogs = req[p].preBlogs

\* C13 witness: a reply to a missing comment was refused while comments were stored.
C13_Witness ==
    \E p \in Procs :
        /\ Ended(p, "createReply", 404)
        /\ Stored(comments) # {}
        /\ blogs[1].totalComments > 0

\* ---- overlapping requests ----

\* the stores as they were when the first request of the group arrived
Baseline ==
    LET s == CHOOSE p \in Group : req[p].first
    IN  [comments |-> req[s].preComments, blogs |-> req[s].preBlogs]

\* the ancestor walk run to its end without any other request in between
RECURSIVE WalkChain(_, _, _)
WalkChain(store, cur, delta) ==
    LET parentComment == FindById(store, cur)
        updated == IncTotalReplies(store, cur, delta)
    IN  IF ContinueWalk(parentComment)
        THEN WalkChain(updated, parentComment.parent, delta)
        ELSE updated

\* deleteCommentById(id) by a permitted user, run to its end without any
\* other request in between: the stores after it
DeleteAlone(st, id) ==
    LET comment == FindById(st.comments, id)
        removed == RemoveComment(st.comments, id)
    IN  [comments |-> IF IsReplyWithParent(comment)
                      THEN WalkChain(removed, comment.parent, DecrementBy(comment))
                      ELSE removed,
         blogs |-> IncBlog(st.blogs, comment.blogId, DecrementBy(comment),
                           IF IsReplyWithParent(comment) THEN 0 ELSE -1)]

\* p and q were stored replies to the same stored comment
Siblings(store, c, d) ==
    /\ c # d
    /\ c \in Stored(store) /\ d \in Stored(store)
    /\ store[c].isReply /\ store[d].isReply
    /\ store[c].parent = store[d].parent
    /\ store[c].parent \in Stored(store)

\* the group is p and q, both deletions have succeeded, of two siblings
TwoSiblingDeletions(p, q) ==
    /\ Group = {p, q} /\ p # q
    /\ Ended(p, "deleteCommentById", 200)
    /\ Ended(q, "deleteCommentById", 200)
    /\ Siblings(Baseline.comments, req[p].id, req[q].id)

\* C14: when two overlapping deletions of sibling replies have both
\* completed, every ancestor's totalReplies and the blog's totalComments
\* are what the two deletions give when run one after the other.
C14_SiblingDeletionsAsSequential ==
    \A p, q \in Procs :
        TwoSiblingDeletions(p, q) =>
            LET after == DeleteAlone(DeleteAlone(Baseline, req[p].id), req[q].id)
                b == Baseline.comments[req[p].id].blogId
            IN  /\ \A a \in Ancestors(Baseline.comments, req[p].id) :
                        comments[a].totalReplies = after.comments[a].totalReplies
                /\ blogs[b].totalComments = after.blogs[b].totalComments

\* C14 witness: two sibling replies under a reply were deleted, the second
\* request arriving before the first had removed its comment.
C14_Witness ==
    \E p, q \in Procs :
        /\ TwoSiblingDeletions(p, q)
        /\ ~req[q].first
        /\ req[p].id \in Stored(req[q].preComments)
        /\ Cardinality(Ancestors(Baseline.comments, req[p].id)) = 2

\* every request of the group is a createReply to comment c that returned 201
RepliesTo(c) ==
    /\ Cardinality(Group) >= 2
    /\ \A p \in Group : Ended(p, "createReply", 201) /\ req[p].id = c

\* C15: when k overlapping replies to one stored comment have all completed,
\* that comment's totalReplies, each of its ancestors' totalReplies and the
\* blog's totalComments are each k more than before the first of them.
C15_NoIncrementLost ==
    \A c \in CommentIds :
        RepliesTo(c) =>
            LET k == Cardinality(Group)
                b == Baseline.comments[c].blogId
            IN  /\ c \in Stored(Baseline.comments)
                /\ \A a \in {c} \cup Ancestors(Baseline.comments, c) :
                        comments[a].totalReplies = Baseline.comments[a].totalReplies + k
                /\ blogs[b].totalComments = Baseline.blogs[b].totalComments + k

\* C15 witness: two replies to a reply, the second request arriving before
\* the first had incremented the parent.
C15_Witness ==
    \E c \in CommentIds :
        /\ RepliesTo(c)
        /\ Ancestors(Baseline.comments, c) # {}
        /\ \E p, q \in Group :
                /\ p # q
                /\ req[q].preComments[c].totalReplies = req[p].preComments[c].totalReplies

\* ---- storage failures ----

\* (variant: a failed walk undoes what the request had written to the comments)
WalkFailsRollingBack(r) ==
    /\ comments' = r.preComments
    /\ UNCHANGED <<blogs, users, nextId, board>>

\* Comment.findByIdAndUpdate rejects: nothing is written by this call
WalkFails(r) == UNCHANGED <<comments, blogs, users, nextId, board>>

\* the call of _incrementalTotalReplies at hand rejects; the error leaves
\* createReply and the error middleware answers 500
CreateReplyWalkFails(p) ==
    /\ req[p].pc = "cr_inc"
    /\ WalkFails(req[p])
    /\ req' = [req EXCEPT ![p] = Finish(@, 500)]

\* the call of _decrementTotalReplies at hand rejects; the error leaves
\* deleteCommentById and the error middleware answers 500
DeleteWalkFails(p) ==
    /\ req[p].pc = "dc_dec"
    /\ WalkFails(req[p])
    /\ req' = [req EXCEPT ![p] = Finish(@, 500)]

\* requests run one at a time, all sent by the blog's author, and a call of
\* the ancestor walk may fail
NextFail ==
    \/ Handler(1, {BlogOwner}, PlainContents)
    \/ CreateReplyWalkFails(1)
    \/ DeleteWalkFails(1)

SpecFail == Init /\ [][NextFail]_vars

\* request p ended with 500 during its ancestor walk
FailedInWalk(p) ==
    \/ Ended(p, "createReply", 500) /\ req[p].newId # 0
    \/ Ended(p, "deleteCommentById", 500) /\ req[p].deleted.stored

\* the ids the walk of p had updated before it failed
Walked(p) == {req[p].walk[i] : i \in 1..Len(req[p].walk)}

\* C16: when a call of the ancestor walk of createReply or deleteCommentById
\* fails, the request ends with an error, the saved reply stays stored (the
\* removed comment stays removed), the ancestors already updated keep their
\* delta, and no other comment and no blog counter has changed.
C16_FailedWalkKeepsApplied ==
    \A p \in Procs :
        FailedInWalk(p) =>
            LET r == req[p]
                own == IF r.op = "createReply" THEN r.newId ELSE r.id
                delta == IF r.op = "createReply" THEN 1 ELSE r.decrementBy
            IN  /\ r.status = 500
                /\ IF r.op = "createReply"
                   THEN own \in Stored(comments) /\ own \notin Stored(r.preComments)
                   ELSE own \notin Stored(comments) /\ own \in Stored(r.preComments)
                /\ \A a \in CommentIds \ {own} :
                        comments[a] =
                            IF a \in Walked(p) /\ a \in Stored(r.preComments)
                            THEN [r.preComments[a] EXCEPT !.totalReplies = @ + delta]
                            ELSE r.preComments[a]
                /\ blogs = r.preBlogs

\* C16 witness: the walk of a deletion failed at the second ancestor, after
\* the parent had been decremented.
C16_Witness ==
    \E p \in Procs :
        /\ FailedInWalk(p)
        /\ req[p].op = "deleteCommentById"
        /\ Len(req[p].walk) = 1
        /\ req[p].cur \in Stored(comments)
        /\ req[p].cur \notin Walked(p)

\* ---- blogs: createBlog, updateLike, deleteBlogByBlogId ----

\* what a deleted blog leaves: no document, and its blogId stays used
RemovedBlog == [NoBlog EXCEPT !.taken = TRUE]

\* the blogId of the next blog (title and nanoid(): never one used before)
FreshBlogId == CHOOSE b \in BlogIds : ~blogs[b].taken /\ \A o \in BlogIds : o < b => blogs[o].taken

\* new Blog({..., author: authorId, isDraft}); blog.save()
\* (isDraft is Boolean(req.body.isDraft); the body passes the schema chosen by it)
CreateBlogSave(p, userId, isDraft) ==
    /\ req[p].pc = "idle"
    /\ \E b \in BlogIds : ~blogs[b].taken
    /\ LET blog == [NewBlog(userId) EXCEPT !.isDraft = isDraft]
       IN  /\ blogs' = [blogs EXCEPT ![FreshBlogId] = blog]
           /\ req' = [req EXCEPT ![p] =
                [Begin("createBlog", userId) EXCEPT
                    !.blogId = FreshBlogId, !.blog = blog, !.pc = "cb_user"]]
    /\ UNCHANGED <<comments, users, nextId, board>>

\* `blog.isDraft ? 0 : 1`
PostsOnCreate(isDraft) == IF isDraft THEN 0 ELSE 1

\* (variant: every deleted blog is taken off the count)
PostsOnDeleteAlways(isDraft) == -1

\* `isDraft ? 0 : -1`
PostsOnDelete(isDraft) == IF isDraft THEN 0 ELSE -1

\* User.findOneAndUpdate({_id: authorId}, {$inc: totalPosts, $push: blogs})
CreateBlogUpdateUser(p) ==
    /\ req[p].pc = "cb_user"
    /\ users' = [users EXCEPT
            ![req[p].userId].totalPosts = @ + PostsOnCreate(req[p].blog.isDraft),
            ![req[p].userId].blogs = Append(@, req[p].blogId)]
    /\ req' = [req EXCEPT ![p] = Finish(@, 201)]
    /\ UNCHANGED <<comments, blogs, nextId, board>>

\* (variant: the like is set whether or not the user had liked the blog)
ToggledAlwaysSet(likes, userId) == likes \cup {userId}

\* blog.likes.get(userId) ? blog.likes.delete(userId) : blog.likes.set(userId, true)
Toggled(likes, userId) ==
    IF userId \in likes THEN likes \ {userId} ELSE likes \cup {userId}

\* Blog.findOne({blogId}).select("likes"), 404 when missing; the map is
\* changed on the document held by the handler
UpdateLikeFindBlog(p, userId, blogId) ==
    /\ req[p].pc = "idle"
    /\ LET r == [Begin("updateLike", userId) EXCEPT !.blogId = blogId]
           blog == FindBlogById(blogs, blogId)
       IN  req' = [req EXCEPT ![p] =
                IF ~blog.stored THEN Finish(r, 404)
                ELSE [r EXCEPT !.isLiked = userId \in blog.likes,
                               !.blog = [blog EXCEPT !.likes = Toggled(@, userId)],
                               !.pc = "ul_update"]]
    /\ UNCHANGED <<comments, blogs, users, nextId, board>>

\* Blog.findByIdAndUpdate(id, {likes, $inc: totalLikes by isLiked ? -1 : 1}):
\* the store after it
SetLikes(store, id, likes, isLiked) ==
    IF id \in DOMAIN store /\ store[id].stored
    THEN [store EXCEPT ![id].likes = likes,
                       ![id].totalLikes = @ + (IF isLiked THEN -1 ELSE 1)]
    ELSE store

UpdateLikeUpdate(p) ==
    /\ req[p].pc = "ul_update"
    /\ blogs' = SetLikes(blogs, req[p].blogId, req[p].blog.likes, req[p].isLiked)
    /\ req' = [req EXCEPT ![p] = Finish(@, 200)]
    /\ UNCHANGED <<comments, users, nextId, board>>

\* Blog.findOneAndDelete({blogId}), 404 when there was none
DeleteBlogRemove(p, userId, blogId) ==
    /\ req[p].pc = "idle"
    /\ LET r == [Begin("deleteBlogByBlogId", userId) EXCEPT !.blogId = blogId]
           deletedBlog == FindBlogById(blogs, blogId)
       IN  /\ blogs' = IF deletedBlog.stored
                       THEN [blogs EXCEPT ![blogId] = RemovedBlog] ELSE blogs
           /\ req' = [req EXCEPT ![p] =
                IF ~deletedBlog.stored THEN Finish(r, 404)
                ELSE [r EXCEPT !.blog = deletedBlog, !.pc = "db_user"]]
    /\ UNCHANGED <<comments, users, nextId, board>>

\* {$pull: {blogs: id}}
Pull(list, id) == SelectSeq(list, LAMBDA x : x # id)

\* User.findByIdAndUpdate(author.id, {$inc: totalPosts, $pull: blogs})
DeleteBlogUpdateUser(p) ==
    /\ req[p].pc = "db_user"
    /\ users' = [users EXCEPT
            ![req[p].blog.author].totalPosts = @ + PostsOnDelete(req[p].blog.isDraft),
            ![req[p].blog.author].blogs = Pull(@, req[p].blogId)]
    /\ req' = [req EXCEPT ![p].pc = "db_comments"]
    /\ UNCHANGED <<comments, blogs, nextId, board>>

\* Comment.deleteMany({blogId: id}): the store after it
DeleteMany(store, blogId) ==
    [c \in DOMAIN store |->
        IF store[c].stored /\ store[c].blogId = blogId THEN Absent ELSE store[c]]

DeleteBlogComments(p) ==
    /\ req[p].pc = "db_comments"
    /\ comments' = DeleteMany(comments, req[p].blogId)
    /\ req' = [req EXCEPT ![p] = Finish(@, 200)]
    /\ UNCHANGED <<blogs, users, nextId, board>>

\* blog requests run one at a time, by any user, with comments on the blogs
BlogHandler(p) ==
    \/ \E u \in Users, d \in BOOLEAN : CreateBlogSave(p, u, d)
    \/ CreateBlogUpdateUser(p)
    \/ \E u \in Users, b \in BlogIds : UpdateLikeFindBlog(p, u, b)
    \/ UpdateLikeUpdate(p)
    \/ \E u \in Users, b \in BlogIds : DeleteBlogRemove(p, u, b)
    \/ DeleteBlogUpdateUser(p)
    \/ DeleteBlogComments(p)
    \/ \E b \in BlogIds, t \in PlainContents : EditCreateComment(p, BlogOwner, b, BlogOwner, t)
    \/ CreateCommentSave(p)
    \/ CreateCommentUpdateBlog(p)
    \/ Respond(p)

NextBlog == BlogHandler(1)

SpecBlog == Init /\ [][NextBlog]_vars

\* updateLike(userId, blogId) run to its end without any other request in
\* between: the blogs after it
UpdateLikeAlone(store, userId, blogId) ==
    LET blog == FindBlogById(store, blogId)
    IN  IF ~blog.stored THEN store
        ELSE SetLikes(store, blogId, Toggled(blog.likes, userId), userId \in blog.likes)

\* C17: updateLike by u on a stored blog adds u to the likes and raises
\* totalLikes by 1 when u was not in the map, removes u and lowers
\* totalLikes by 1 when u was; a second updateLike by u right after it
\* brings the map and totalLikes back to what they were before the first.
C17_LikeToggles ==
    \A p \in Procs :
        Ended(p, "updateLike", 200) =>
            LET u == req[p].userId
                b == req[p].blogId
                was == req[p].preBlogs[b]
                again == UpdateLikeAlone(blogs, u, b)[b]
            IN  /\ IF u \in was.likes
                   THEN /\ blogs[b].likes = was.likes \ {u}
                        /\ blogs[b].totalLikes = was.totalLikes - 1
                   ELSE /\ blogs[b].likes = was.likes \cup {u}
                        /\ blogs[b].totalLikes = was.totalLikes + 1
                /\ blogs[b].likes # was.likes
                /\ again.likes = was.likes
                /\ again.totalLikes = was.totalLikes

\* C17 witness: a user took back their like of a blog another user likes too.
C17_Witness ==
    \E p \in Procs :
        /\ Ended(p, "updateLike", 200)
        /\ req[p].userId \in req[p].preBlogs[req[p].blogId].likes
        /\ blogs[req[p].blogId].likes # {}
        /\ blogs[req[p].blogId].totalLikes = 1

\* the elements of a list
Elements(list) == {list[i] : i \in 1..Len(list)}

\* C18: a deleteBlogByBlogId that returned 200 has taken the blog out of
\* its author's blogs list and changed the author's totalPosts by -1 when
\* the blog was published, by 0 when it was a draft.
C18_DeleteBlogUpdatesAuthor ==
    \A p \in Procs :
        Ended(p, "deleteBlogByBlogId", 200) =>
            LET b == req[p].blogId
                was == req[p].preBlogs[b]
                author == was.author
            IN  /\ b \notin Elements(users[author].blogs)
                /\ users[author].blogs = Pull(req[p].preUsers[author].blogs, b)
                /\ users[author].totalPosts =
                        req[p].preUsers[author].totalPosts + (IF was.isDraft THEN 0 ELSE -1)
                /\ \A o \in Users \ {author} : users[o] = req[p].preUsers[o]

\* C18 witness: a draft was deleted whose author has a published blog and
\* had the draft in the blogs list.
C18_Witness ==
    \E p \in Procs :
        /\ Ended(p, "deleteBlogByBlogId", 200)
        /\ req[p].preBlogs[req[p].blogId].isDraft
        /\ users[req[p].preBlogs[req[p].blogId].author].totalPosts = 1
        /\ req[p].blogId \in Elements(req[p].preUsers[req[p].preBlogs[req[p].blogId].author].blogs)

\* the deletion of a blog overlaps with requests that add comments (all sent
\* by the blog's author)
DeleteBlogHandler(p) ==
    \/ \E b \in BlogIds, t \in PlainContents :
            TreeCreateComment(p, BlogOwner, b, BlogOwner, t)
    \/ \E c \in TargetIds, t \in PlainContents : TreeCreateReply(p, BlogOwner, c, t)
    \/ CreateCommentSave(p)
    \/ CreateCommentUpdateBlog(p)
    \/ CreateReplySave(p)
    \/ IncrementalTotalReplies(p)
    \/ CreateReplyUpdateBlog(p)
    \/ \E b \in BlogIds : DeleteBlogRemove(p, BlogOwner, b)
    \/ DeleteBlogUpdateUser(p)
    \/ DeleteBlogComments(p)
    \/ Respond(p)

NextDeleteBlog == \E p \in Procs : DeleteBlogHandler(p)

SpecDeleteBlog == Init /\ [][NextDeleteBlog]_vars

\* C19 (as claimed): once a deleteBlogByBlogId of blog b has returned 200
\* and no request is in flight, no stored comment has blogId b.
C19_NoCommentOfDeletedBlog ==
    \A p \in Procs :
        (Ended(p, "deleteBlogByBlogId", 200) /\ NoneInFlight) =>
            \A c \in Stored(comments) : comments[c].blogId # req[p].blogId

\* every stored comment of the store counts its stored descendants
CountsDescendants(store) ==
    \A c \in Stored(store) : store[c].totalReplies = Cardinality(Descendants(store, c))

\* C20 (as claimed): when the stores counted right before a group of
\* overlapping createReply and deleteCommentById requests and every request
\* of the group has completed, each stored comment's totalReplies is the
\* number of its stored descendants.
C20_OverlappingRepliesAndDeletionsCount ==
    ( /\ Group # {}
      /\ NoneInFlight
      /\ \A p \in Group : req[p].op \in {"createReply", "deleteCommentById"}
      /\ CountsDescendants(Baseline.comments) )
        => CountsDescendants(comments)

\* ---- order of the steps, missing ancestors, shape of the tree ----

\* the last id the walk of request r has updated
LastWalked(r) == r.walk[Len(r.walk)]

\* a step of request p of createReply or deleteCommentById keeps the order
\* save/remove, then the ancestors upward one per step, then the blog
StepInOrder(p) ==
    LET r == req[p]
        after == req'[p]
        own == IF r.op = "createReply" THEN after.newId ELSE r.id
        firstUp == IF r.op = "createReply" THEN r.id ELSE r.comment.parent
    IN  /\ r.pc \in {"cr_save", "dc_delete"} =>
                /\ r.walk = <<>> /\ after.walk = <<>>
                /\ blogs' = blogs
                /\ \A c \in CommentIds \ {own} : comments'[c] = comments[c]
                /\ (r.op = "createReply") => (own \in Stored(comments') \ Stored(comments))
                /\ (r.op = "deleteCommentById") => own \notin Stored(comments')
        /\ r.pc \in {"cr_inc", "dc_dec"} =>
                /\ IF r.op = "createReply" THEN r.newId \in Stored(comments)
                                           ELSE r.id \notin Stored(comments)
                /\ r.cur = IF r.walk = <<>> THEN firstUp ELSE comments[LastWalked(r)].parent
                /\ after.walk = Append(r.walk, r.cur)
                /\ blogs' = blogs
                /\ \A c \in CommentIds \ {r.cur} : comments'[c] = comments[c]
                /\ (after.pc \in {"cr_blog", "dc_blog"}) <=>
                        ~ContinueWalk(FindById(comments, r.cur))
        /\ r.pc \in {"cr_blog", "dc_blog"} =>
                /\ comments' = comments
                /\ after.pc = "done"
                /\ after.walk = r.walk
                /\ (r.walk = <<>>) => (r.op = "deleteCommentById" /\ ~r.isReply)
                /\ (r.walk # <<>>) => ~ContinueWalk(FindById(comments, LastWalked(r)))

C21_Order ==
    \A p \in Procs :
        (req'[p] # req[p] /\ req[p].op \in {"createReply", "deleteCommentById"}
            /\ req[p].pc \notin {"idle", "done"}) => StepInOrder(p)

\* C21: within a createReply or deleteCommentById request the reply is
\* saved (the comment removed) first, then the ancestors are updated one per
\* step from the immediate parent upward, and the blog is updated once,
\* after the last ancestor update.
C21_StepsInFixedOrder == [][C21_Order]_vars

\* C21 witness: a deletion has gone through removal, two ancestor updates
\* and the blog update.
C21_Witness ==
    \E p \in Procs :
        /\ Ended(p, "deleteCommentById", 200)
        /\ Len(req[p].walk) = 2
        /\ blogs[req[p].blogId] # req[p].preBlogs[req[p].blogId]

\* request p ran alone, has its response, and its walk came to an id whose
\* record was missing
WalkMetMissing(p) ==
    /\ Group = {p}
    /\ req[p].pc = "done"
    /\ req[p].op \in {"createReply", "deleteCommentById"}
    /\ req[p].walk # <<>>
    /\ LastWalked(req[p]) \notin Stored(req[p].preComments)

\* C22: when the walk of a createReply or deleteCommentById comes to a
\* parent reference whose record is missing, the request still succeeds,
\* the ancestors walked before keep their delta, no other record is
\* touched, and the blog update is applied.
C22_MissingAncestorStopsWalk ==
    \A p \in Procs :
        WalkMetMissing(p) =>
            LET r == req[p]
                pre == r.preComments
                own == IF r.op = "createReply" THEN r.newId ELSE r.id
                delta == IF r.op = "createReply" THEN 1 ELSE r.decrementBy
            IN  /\ r.status = IF r.op = "createReply" THEN 201 ELSE 200
                /\ \A c \in Stored(pre) \ {own} :
                        comments[c] = IF c \in Walked(p)
                                      THEN [pre[c] EXCEPT !.totalReplies = @ + delta]
                                      ELSE pre[c]
                /\ \A c \in CommentIds \ (Stored(pre) \cup {own}) : ~comments[c].stored
                /\ blogs[r.blogId].totalComments = r.preBlogs[r.blogId].totalComments + delta
                /\ blogs[r.blogId].totalParentComments =
                        r.preBlogs[r.blogId].totalParentComments

\* C22 witness: a reply to a comment whose parent had been deleted while a
\* comment above that parent is stored.
C22_Witness ==
    \E p \in Procs :
        /\ WalkMetMissing(p)
        /\ req[p].op = "createReply"
        /\ Len(req[p].walk) = 2
        /\ \E a \in Stored(comments) \ (Walked(p) \cup {req[p].newId}) :
                comments[a].totalReplies > 0

\* every stored comment is a reply exactly when it has a parent reference
C23_ReplyIffParent ==
    \A c \in Stored(comments) : comments[c].isReply <=> comments[c].parent # NoParent

\* a step leaves isReply and parent of every comment that stays stored
C23_ShapeStays ==
    \A c \in Stored(comments) \cap Stored(comments') :
        /\ comments'[c].isReply = comments[c].isReply
        /\ comments'[c].parent = comments[c].parent

\* C23: in every reachable state each stored comment has isReply true
\* exactly when its parent reference is set, and no step of an edit, a
\* counter propagation or a deletion changes a comment's isReply or parent.
C23_IsReplyMatchesParent == []C23_ReplyIffParent /\ [][C23_ShapeStays]_vars

\* C23 witness: an edited reply whose parent has been deleted.
C23_Witness ==
    \E c \in Stored(comments) :
        /\ comments[c].isReply
        /\ comments[c].isEdited
        /\ comments[c].parent \notin Stored(comments)
        /\ NoneInFlight

\* C24 (as claimed): with requests run one at a time from an empty comment
\* store and zero blog counters, no comment's totalReplies and no blog's
\* totalComments or totalParentComments is ever below 0.
C24_CountersNeverNegative ==
    /\ \A c \in Stored(comments) : comments[c].totalReplies >= 0
    /\ \A b \in BlogIds :
            blogs[b].stored =>
                blogs[b].totalComments >= 0 /\ blogs[b].totalParentComments >= 0

\* every request of the group is a deleteCommentById of comment c, which was
\* stored before the first of them, and all have their response
DeletionsOf(c) ==
    /\ Cardinality(Group) >= 2
    /\ NoneInFlight
    /\ \A p \in Group : req[p].op = "deleteCommentById" /\ req[p].id = c
    /\ c \in Stored(Baseline.comments)

\* C25: when overlapping deleteCommentById requests name the same comment,
\* exactly one of them removes the record and returns 200, every other ends
\* with 404 or 500, and the counters of the ancestors and of the blog are
\* those of one deletion.
C25_OneDeletionCounts ==
    \A c \in CommentIds :
        DeletionsOf(c) =>
            LET once == DeleteAlone(Baseline, c)
            IN  /\ Cardinality({p \in Group : req[p].status = 200}) = 1
                /\ \A p \in Group : req[p].status \in {200, 404, 500}
                /\ \A p \in Group : req[p].status # 200 => req[p].walk = <<>>
                /\ comments = once.comments
                /\ blogs = once.blogs

\* C25 witness: two deletions of one reply both found it, one removed it
\* and the other got the 500 deletion error.
C25_Witness ==
    \E c \in CommentIds :
        /\ DeletionsOf(c)
        /\ Baseline.comments[c].isReply
        /\ \E p \in Group : req[p].status = 500

\* the number of parent references that lead upward from c, the one to a
\* missing record included
RECURSIVE Depth(_, _)
Depth(store, c) ==
    IF c \notin Stored(store) \/ store[c].parent = NoParent THEN 0
    ELSE 1 + Depth(store, store[c].parent)

\* C26: the parent of every stored reply is a comment created before the
\* reply (ids are given in order of creation), so the parent references
\* have no cycle; and the walk of a request goes strictly upward and makes
\* at most as many calls as its target is deep.
C26_NoCycleWalkBounded ==
    /\ \A c \in Stored(comments) : comments[c].parent < c
    /\ \A c \in Stored(comments) : c \notin Ancestors(comments, c)
    /\ \A p \in Procs :
            LET r == req[p]
            IN  /\ \A i \in 1..Len(r.walk) - 1 : r.walk[i + 1] < r.walk[i]
                /\ r.op = "createReply" =>
                        Len(r.walk) <= 1 + Depth(r.preComments, r.id)
                /\ r.op = "deleteCommentById" =>
                        Len(r.walk) <= Depth(r.preComments, r.id)

\* C26 witness: a reply to a reply has been recorded while another request
\* was in flight, its walk two calls long.
C26_Witness ==
    \E p, q \in Procs :
        /\ Ended(p, "createReply", 201)
        /\ Len(req[p].walk) = 2
        /\ req[q].pc \notin {"idle", "done"}
        /\ \E c \in Stored(comments) : Depth(comments, c) = 2

\* ---- updateBlogById ----

\* req.body.isDraft of an update: true, false, or the key is not in the body
DraftBodies == {"true", "false", "absent"}

\* Boolean(req.body.isDraft)
BodyIsDraft(body) == body = "true"

\* Blog.findOne({blogId}), 404 when missing; the body passes the schema
\* chosen by Boolean(req.body.isDraft)
UpdateBlogFind(p, userId, blogId, body) ==
    /\ req[p].pc = "idle"
    /\ LET r == [Begin("updateBlogById", userId) EXCEPT !.blogId = blogId, !.body = body]
           blog == FindBlogById(blogs, blogId)
       IN  req' = [req EXCEPT ![p] =
                IF ~blog.stored THEN Finish(r, 404)
                ELSE [r EXCEPT !.blog = blog, !.pc = "ub_update"]]
    /\ UNCHANGED <<comments, blogs, users, nextId, board>>

\* Blog.findOneAndUpdate({blogId}, {...req.body, tags}): isDraft is written
\* when the body has the key; then `blog.isDraft && !isDraft` decides
\* whether the author's count is raised
UpdateBlogUpdate(p) ==
    /\ req[p].pc = "ub_update"
    /\ blogs' = IF blogs[req[p].blogId].stored /\ req[p].body # "absent"
                THEN [blogs EXCEPT ![req[p].blogId].isDraft = BodyIsDraft(req[p].body)]
                ELSE blogs
    /\ req' = [req EXCEPT ![p] =
            IF req[p].blog.isDraft /\ ~BodyIsDraft(req[p].body)
            THEN [@ EXCEPT !.pc = "ub_user"]
            ELSE Finish(@, 200)]
    /\ UNCHANGED <<comments, users, nextId, board>>

\* User.findOneAndUpdate({_id: blog.author}, {$inc: totalPosts 1})
UpdateBlogUser(p) ==
    /\ req[p].pc = "ub_user"
    /\ users' = [users EXCEPT ![req[p].blog.author].totalPosts = @ + 1]
    /\ req' = [req EXCEPT ![p] = Finish(@, 200)]
    /\ UNCHANGED <<comments, blogs, nextId, board>>

PostsUpdateBlog(p, userId, blogId, body) ==
    /\ \A u \in Users : users[u].totalPosts < MaxPosts
    /\ UpdateBlogFind(p, userId, blogId, body)

\* createBlog, updateBlogById and deleteBlogByBlogId, one request at a time
PostsHandler(p) ==
    \/ \E u \in Users, d \in BOOLEAN : CreateBlogSave(p, u, d)
    \/ CreateBlogUpdateUser(p)
    \/ \E u \in Users, b \in BlogIds, d \in DraftBodies : PostsUpdateBlog(p, u, b, d)
    \/ UpdateBlogUpdate(p)
    \/ UpdateBlogUser(p)
    \/ \E u \in Users, b \in BlogIds : DeleteBlogRemove(p, u, b)
    \/ DeleteBlogUpdateUser(p)
    \/ DeleteBlogComments(p)
    \/ Respond(p)

NextPosts == PostsHandler(1)

SpecPosts == Init /\ [][NextPosts]_vars

\* C27 (as claimed): with blog requests run one at a time, once a request
\* has completed each author's totalPosts is the number of stored blogs of
\* that author that are not drafts.
C27_TotalPostsCountsPublished ==
    NoneInFlight =>
        \A u \in Users :
            users[u].totalPosts =
                Cardinality({b \in BlogIds :
                    blogs[b].stored /\ blogs[b].author = u /\ ~blogs[b].isDraft})

\* ---- overlapping updateLike requests ----

LikesUpdateLike(p, userId, blogId) ==
    /\ LowestFree(p)
    /\ \A b \in BlogIds : blogs[b].totalLikes \in -MaxLikes..MaxLikes
    /\ UpdateLikeFindBlog(p, userId, blogId)

\* updateLike requests by any users overlap; the slots are freed together
LikesHandler(p) ==
    \/ \E u \in Users, b \in BlogIds : LikesUpdateLike(p, u, b)
    \/ UpdateLikeUpdate(p)

NextLikes == GroupRespond \/ \E p \in Procs : LikesHandler(p)

SpecLikes == Init /\ [][NextLikes]_vars

\* the group is updateLike requests of different users on blog b, all
\* returned 200, and totalLikes matched the map before the first of them
LikesByDifferentUsers(b) ==
    /\ Group # {}
    /\ \A p \in Group : Ended(p, "updateLike", 200) /\ req[p].blogId = b
    /\ \A p, q \in Group : p # q => req[p].userId # req[q].userId
    /\ Baseline.blogs[b].totalLikes = Cardinality(Baseline.blogs[b].likes)

\* C28 (as claimed): when overlapping updateLike requests of different
\* users on one blog have all completed, totalLikes is the number of entries
\* of the likes map and every user whose request was a like is in the map.
C28_LikesMatchMap ==
    \A b \in BlogIds :
        LikesByDifferentUsers(b) =>
            /\ blogs[b].totalLikes = Cardinality(blogs[b].likes)
            /\ \A p \in Group : ~req[p].isLiked => req[p].userId \in blogs[b].likes

\* ---------------------------------------------------------------------
\* The whiteboard server (src/src/app.ts). Socket.io runs every event
\* handler to its end before the next event, so an event is one action.
\* ---------------------------------------------------------------------

\* what a draw event carries
Moves == {"line", "circle"}

\* getRoomId answers socket.id when the socket joined no room; socket.id is
\* never a key of `rooms`
SocketId == 0

Event(ev, s, roomId, failed, error) ==
    [ev |-> ev, socket |-> s, roomId |-> roomId, failed |-> failed, error |-> error]

\* an uncaught TypeError ends the server process
Running == ~lastEvent.error

\* rooms.get(roomId) is a room
HasRoom(roomId) == roomId \in RoomIds /\ rooms[roomId].exists

\* the first room of socket.rooms that is not the socket's own id
GetRoomId(s) == IF socketRooms[s] = <<>> THEN SocketId ELSE Head(socketRooms[s])

\* socket.join and socket.leave on the ordered set socket.rooms
SocketJoin(s, r) ==
    IF \E i \in DOMAIN socketRooms[s] : socketRooms[s][i] = r
    THEN socketRooms[s]
    ELSE Append(socketRooms[s], r)

SocketLeave(s, r) == SelectSeq(socketRooms[s], LAMBDA x : x # r)

\* the room also takes the socket that makes it hold one more than the limit
RoomHasSpaceInclusive(room) == Cardinality(room.users) <= RoomCapacity

RoomHasSpace(room) == Cardinality(room.users) < RoomCapacity

\* create_room: an id no room has, the socket joins it, the room starts
\* with the socket as its only user and an empty move list for it
CreateRoom(s) ==
    /\ Running
    /\ \E roomId \in RoomIds :
        /\ ~rooms[roomId].exists
        /\ socketRooms' = [socketRooms EXCEPT ![s] = SocketJoin(s, roomId)]
        /\ rooms' = [rooms EXCEPT ![roomId] =
                        [exists |-> TRUE, users |-> {s}, movers |-> {s},
                         usersMoves |-> [t \in Sockets |-> <<>>], drawed |-> <<>>]]
        /\ lastEvent' = Event("create_room", s, roomId, FALSE, FALSE)
    /\ UNCHANGED site

\* join_room: the room exists and has space, or 'joined' with the failed flag
JoinRoom(s, roomId) ==
    /\ Running
    /\ IF rooms[roomId].exists /\ RoomHasSpace(rooms[roomId])
       THEN /\ socketRooms' = [socketRooms EXCEPT ![s] = SocketJoin(s, roomId)]
            /\ rooms' = [rooms EXCEPT ![roomId].users = @ \cup {s},
                                      ![roomId].movers = @ \cup {s},
                                      ![roomId].usersMoves[s] = <<>>]
            /\ lastEvent' = Event("join_room", s, roomId, FALSE, FALSE)
       ELSE /\ UNCHANGED <<rooms, socketRooms>>
            /\ lastEvent' = Event("join_room", s, roomId, TRUE, FALSE)
    /\ UNCHANGED site

\* leave_room: leaveRoom(getRoomId(), socket.id) moves the socket's moves to
\* drawed and takes it out of users; its usersMoves entry stays
LeaveRoom(s) ==
    /\ Running
    /\ LET roomId == GetRoomId(s) IN
        /\ IF HasRoom(roomId)
           THEN /\ rooms' = [rooms EXCEPT ![roomId].drawed = @ \o rooms[roomId].usersMoves[s],
                                          ![roomId].users = @ \ {s}]
                /\ socketRooms' = [socketRooms EXCEPT ![s] = SocketLeave(s, roomId)]
           ELSE UNCHANGED <<rooms, socketRooms>>
        /\ lastEvent' = Event("leave_room", s, roomId, FALSE, FALSE)
    /\ UNCHANGED site

\* addMove before its last line: a socket that is not in users gets [move]
AddMoveSet(room, socketId, move) ==
    IF socketId \notin room.users
    THEN [room EXCEPT !.movers = @ \cup {socketId}, !.usersMoves[socketId] = <<move>>]
    ELSE room

\* addMove throws: `room.users` of undefined, or `.push` of undefined
AddMoveThrows(roomId, socketId, move) ==
    \/ ~HasRoom(roomId)
    \/ socketId \notin AddMoveSet(rooms[roomId], socketId, move).movers

AddMove(roomId, socketId, move) ==
    [rooms EXCEPT ![roomId] =
        [AddMoveSet(rooms[roomId], socketId, move) EXCEPT !.usersMoves[socketId] = Append(@, move)]]

\* undoMove throws: `room.usersMoves` of undefined, or `.pop` of undefined
UndoMoveThrows(roomId, socketId) ==
    \/ ~HasRoom(roomId)
    \/ socketId \notin rooms[roomId].movers

\* Array.pop: the list without its last element, an empty list stays empty
Pop(list) == IF list = <<>> THEN list ELSE SubSeq(list, 1, Len(list) - 1)

UndoMove(roomId, socketId) ==
    [rooms EXCEPT ![roomId].usersMoves[socketId] = Pop(@)]

\* draw: addMove(getRoomId(), socket.id, move)
Draw(s, move) ==
    /\ Running
    /\ LET roomId == GetRoomId(s) IN
        IF AddMoveThrows(roomId, s, move)
        THEN /\ lastEvent' = Event("draw", s, roomId, FALSE, TRUE)
             /\ UNCHANGED rooms
        ELSE /\ lastEvent' = Event("draw", s, roomId, FALSE, FALSE)
             /\ rooms' = AddMove(roomId, s, move)
    /\ UNCHANGED <<socketRooms, site>>

\* undo: undoMove(getRoomId(), socket.id)
Undo(s) ==
    /\ Running
    /\ LET roomId == GetRoomId(s) IN
        IF UndoMoveThrows(roomId, s)
        THEN /\ lastEvent' = Event("undo", s, roomId, FALSE, TRUE)
             /\ UNCHANGED rooms
        ELSE /\ lastEvent' = Event("undo", s, roomId, FALSE, FALSE)
             /\ rooms' = UndoMove(roomId, s)
    /\ UNCHANGED <<socketRooms, site>>

\* ---- one room filling up ----

\* the sockets that sent an event that took effect; a new socket is the
\* lowest one that is not among them
Known == UNION {rooms[r].movers : r \in RoomIds}

NextSocket(s) == s \in Known \/ \A t \in Sockets : t < s => t \in Known

\* the drawers create the one room, join and leave; every other socket joins
\* once; a join may name a room id that no room has
RoomsCreate(s) ==
    /\ \A r \in RoomIds : ~rooms[r].exists
    /\ CreateRoom(s)

RoomsJoin(s, roomId) ==
    /\ NextSocket(s)
    /\ s \in Drawers \/ socketRooms[s] = <<>>
    /\ JoinRoom(s, roomId)

NextRooms ==
    \/ \E s \in Drawers : RoomsCreate(s)
    \/ \E s \in Sockets, roomId \in RoomIds : RoomsJoin(s, roomId)
    \/ \E s \in Drawers : LeaveRoom(s)

SpecRooms == Init /\ [][NextRooms]_vars

\* C29: every room has at most 12 users: create_room starts a room with
\* exactly one user, join_room adds the socket only when the room exists and
\* holds fewer than 12 users, and otherwise answers with the failed flag and
\* changes no room.
C29_AtMostTwelve == \A r \in RoomIds : Cardinality(rooms[r].users) <= 12

C29_Step ==
    LET s == lastEvent'.socket
        r == lastEvent'.roomId
        open == rooms[r].exists /\ Cardinality(rooms[r].users) < 12
    IN  /\ lastEvent'.ev = "create_room" =>
            /\ ~rooms[r].exists
            /\ rooms'[r].exists /\ rooms'[r].users = {s}
            /\ \A q \in RoomIds \ {r} : rooms'[q] = rooms[q]
        /\ lastEvent'.ev = "join_room" =>
            /\ lastEvent'.failed <=> ~open
            /\ open => rooms'[r].users = rooms[r].users \cup {s}
            /\ lastEvent'.failed => rooms' = rooms
            /\ \A q \in RoomIds \ {r} : rooms'[q] = rooms[q]

C29_RoomsHoldAtMostTwelve == []C29_AtMostTwelve /\ [][C29_Step]_vars

\* a join was refused because the room holds 12 users
C29_Witness ==
    /\ lastEvent.ev = "join_room" /\ lastEvent.failed
    /\ rooms[lastEvent.roomId].exists
    /\ Cardinality(rooms[lastEvent.roomId].users) = 12
    /\ lastEvent.socket \notin rooms[lastEvent.roomId].users

\* ---- drawing and undoing ----

\* the drawers send every event, while the lists stay within their bounds
DrawLeave(s) ==
    /\ HasRoom(GetRoomId(s)) =>
        Len(rooms[GetRoomId(s)].drawed) + Len(rooms[GetRoomId(s)].usersMoves[s]) <= MaxDrawed
    /\ LeaveRoom(s)

DrawDraw(s, move) ==
    /\ HasRoom(GetRoomId(s)) => Len(rooms[GetRoomId(s)].usersMoves[s]) < MaxMoves
    /\ Draw(s, move)

NextDraw ==
    \/ \E s \in Drawers : CreateRoom(s)
    \/ \E s \in Drawers, roomId \in RoomIds : JoinRoom(s, roomId)
    \/ \E s \in Drawers : DrawLeave(s)
    \/ \E s \in Drawers, move \in Moves : DrawDraw(s, move)
    \/ \E s \in Drawers : Undo(s)

SpecDraw == Init /\ [][NextDraw]_vars

\* the socket of the event handled by this step is in an existing room
InRoom == HasRoom(GetRoomId(lastEvent'.socket))

\* a draw appends exactly one move to the socket's list in its room, an undo
\* removes exactly the last move of that list
C30_InRoom ==
    LET s == lastEvent'.socket
        r == GetRoomId(s)
    IN  /\ lastEvent'.ev = "draw" /\ InRoom =>
            \E move \in Moves :
                rooms'[r].usersMoves[s] = Append(rooms[r].usersMoves[s], move)
        /\ lastEvent'.ev = "undo" /\ InRoom =>
            LET list == rooms[r].usersMoves[s]
            IN  rooms'[r].usersMoves[s] =
                    IF list = <<>> THEN <<>> ELSE SubSeq(list, 1, Len(list) - 1)

\* a draw or undo of a socket that is in no existing room is handled without
\* error and changes no room
C30_OutOfRoom ==
    lastEvent'.ev \in {"draw", "undo"} /\ ~InRoom =>
        ~lastEvent'.error /\ rooms' = rooms

\* C30: each draw handled for socket s appends exactly one move to the move
\* list of s in the room s has joined, each undo removes exactly the last move
\* of that list, and a draw or undo from a socket that is in no existing room
\* is handled without error and changes no room.
C30_DrawAndUndo == [][C30_InRoom /\ C30_OutOfRoom]_vars
====
